---------------------------- MODULE Spec2Model ----------------------------
(***************************************************************************)
(* A model of src/2.py, the YouTube MCP server: the credential cache, the  *)
(* identifier resolvers, the record normalisers and the nine tools, each   *)
(* tool a coroutine that runs from one upstream request to the next.       *)
(*                                                                         *)
(* Text is a tuple of one-character strings, so that parsing is computed.  *)
(* Python's None is "None" where the value is a string and << >> where it  *)
(* is a tuple (an identifier, a cursor).                                   *)
(***************************************************************************)
EXTENDS Integers, Sequences, FiniteSets, TLC

(***************************************************************************)
(* Bounds of the model.                                                    *)
(***************************************************************************)
\* caps (max / max_videos) are drawn from -1 .. MaxCap and one past a page
MaxCap == 2
\* an upstream page lists at most MaxItems threads / playlist items, unless it
\* is a full page (exactly as many as the request asked for)
MaxItems == 2
\* a comment thread carries at most MaxReplies replies
MaxReplies == 2
\* the upstream resource has at most MaxPages pages
MaxPages == 2

(***************************************************************************)
(* Fixed numbers of the program.                                           *)
(***************************************************************************)
\* "maxResults": 100 of fetch_comments
COMMENT_PAGE == 100
\* min(50, ...) of get_channel_videos and get_playlist_details
VIDEO_PAGE == 50
\* [:200] of the description fields
DESC_LIMIT == 200
\* {11} of the bare-ID pattern and {6,} of the embed pattern
ID_LEN == 11
EMBED_MIN == 6

None == "None"
NoneSeq == << >>

Min(S) == CHOOSE x \in S : \A y \in S : x <= y
Max(S) == CHOOSE x \in S : \A y \in S : x >= y

\* a sequence written as a function, as the tuple it is
List(f) == << >> \o f

(***************************************************************************)
(* Text helpers: Python's str operations on tuples of characters.          *)
(***************************************************************************)
\* s[i:] (1-based: the text from position i on)
From(s, i) == SubSeq(s, i, Len(s))

\* sub occurs in s at position i
OccursAt(s, sub, i) ==
    /\ i >= 1
    /\ i + Len(sub) - 1 <= Len(s)
    /\ SubSeq(s, i, i + Len(sub) - 1) = sub

\* s.find(sub), 1-based, 0 when absent
Find(s, sub) ==
    LET hits == {i \in 1..Len(s) : OccursAt(s, sub, i)}
    IN  IF hits = {} THEN 0 ELSE Min(hits)

\* sub in s
Contains(s, sub) == Find(s, sub) # 0

\* s.split(sub)[0]
Before(s, sub) ==
    IF Contains(s, sub) THEN SubSeq(s, 1, Find(s, sub) - 1) ELSE s

\* the text after the first occurrence of sub
After(s, sub) == From(s, Find(s, sub) + Len(sub))

\* s.split(sub)[1], for sub in s: the text between the first occurrence of sub
\* and the next one
SplitSecond(s, sub) == Before(After(s, sub), sub)

\* s.split("/")[-1]
AfterLastSlash(s) ==
    LET hits == {i \in 1..Len(s) : s[i] = "/"}
    IN  IF hits = {} THEN s ELSE From(s, Max(hits) + 1)

\* s.strip("/")
StripSlashes(s) ==
    LET keep == {i \in 1..Len(s) : s[i] # "/"}
    IN  IF keep = {} THEN << >> ELSE SubSeq(s, Min(keep), Max(keep))

\* s.endswith(suffix)
EndsWith(s, suffix) ==
    /\ Len(suffix) <= Len(s)
    /\ From(s, Len(s) - Len(suffix) + 1) = suffix

\* s.startswith(prefix)
StartsWith(s, prefix) == OccursAt(s, prefix, 1)

\* the first position >= i of s holding a character of cs, Len(s)+1 when none
FirstOf(s, cs, i) ==
    LET hits == {j \in i..Len(s) : s[j] \in cs}
    IN  IF hits = {} THEN Len(s) + 1 ELSE Min(hits)

Letters ==
    {"a","b","c","d","e","f","g","h","i","j","k","l","m","n","o","p","q","r",
     "s","t","u","v","w","x","y","z","A","B","C","D","E","F","G","H","I","J",
     "K","L","M","N","O","P","Q","R","S","T","U","V","W","X","Y","Z"}
Digits == {"0","1","2","3","4","5","6","7","8","9"}
\* the class [A-Za-z0-9_-] of both patterns of _extract_video_id
IdChars == Letters \cup Digits \cup {"_", "-"}
\* urllib.parse.scheme_chars
SchemeChars == Letters \cup Digits \cup {"+", "-", "."}

\* the length of the longest run of IdChars of s starting at position i
RunLen(s, i) == FirstOf(s, {s[j] : j \in 1..Len(s)} \ IdChars, i) - i

(***************************************************************************)
(* urllib.parse.urlparse and parse_qs, for text without '%' and ';'.       *)
(***************************************************************************)
\* the scheme split: ':' at position i > 1 after scheme characters only, the
\* first of them a letter
SchemeEnd(url) ==
    LET i == Find(url, <<":">>)
    IN  IF /\ i > 1
           /\ url[1] \in Letters
           /\ \A j \in 1..(i - 1) : url[j] \in SchemeChars
        THEN i ELSE 0

urlparse(url) ==
    LET rest1 == From(url, SchemeEnd(url) + 1)
        hasNetloc == StartsWith(rest1, <<"/", "/">>)
        delim == FirstOf(rest1, {"/", "?", "#"}, 3)
        netloc == IF hasNetloc THEN SubSeq(rest1, 3, delim - 1) ELSE << >>
        rest2 == IF hasNetloc THEN From(rest1, delim) ELSE rest1
        rest3 == Before(rest2, <<"#">>)
        path == Before(rest3, <<"?">>)
        query == IF Contains(rest3, <<"?">>) THEN After(rest3, <<"?">>) ELSE << >>
    IN  [netloc |-> netloc, path |-> path, query |-> query]

\* the fields of a query string, split at '&'
RECURSIVE QueryFields(_)
QueryFields(q) ==
    IF q = << >> THEN << >>
    ELSE IF Contains(q, <<"&">>)
         THEN <<Before(q, <<"&">>)>> \o QueryFields(After(q, <<"&">>))
         ELSE <<q>>

\* unquote of a query value: '+' stands for a space
PlusToSpace(s) == [i \in 1..Len(s) |-> IF s[i] = "+" THEN " " ELSE s[i]]

\* urlsplit raises ValueError("Invalid IPv6 URL") for a netloc that holds
\* one of '[' and ']' without the other
UrlparseRaises(url) ==
    Contains(urlparse(url).netloc, <<"[">>) # Contains(urlparse(url).netloc, <<"]">>)

\* parse_qs(query)[name], the list of the non-blank values of name
QueryValues(query, name) ==
    LET fs == QueryFields(query)
        ok(i) == /\ Contains(fs[i], <<"=">>)
                 /\ PlusToSpace(Before(fs[i], <<"=">>)) = name
                 /\ After(fs[i], <<"=">>) # << >>
        idx == {i \in 1..Len(fs) : ok(i)}
        RECURSIVE Vals(_)
        Vals(i) == IF i > Len(fs) THEN << >>
                   ELSE (IF i \in idx
                         THEN <<PlusToSpace(After(fs[i], <<"=">>))>>
                         ELSE << >>) \o Vals(i + 1)
    IN  Vals(1)

(***************************************************************************)
(* The identifier resolvers.                                               *)
(***************************************************************************)
YOUTU_BE == <<"y","o","u","t","u",".","b","e">>
YOUTUBE_COM == <<"y","o","u","t","u","b","e",".","c","o","m">>
EMBED == <<"/","e","m","b","e","d","/">>

\* re.search(r"/embed/([A-Za-z0-9_-]{6,})", path): group 1 of the leftmost
\* match, << >> when there is none
EmbedMatch(path) ==
    LET hits == {i \in 1..Len(path) :
                    /\ OccursAt(path, EMBED, i)
                    /\ RunLen(path, i + Len(EMBED)) >= EMBED_MIN}
    IN  IF hits = {} THEN << >>
        ELSE LET s == Min(hits) + Len(EMBED)
             IN  SubSeq(path, s, s + RunLen(path, s) - 1)

\* re.search(r"([A-Za-z0-9_-]{11})", text): the leftmost 11 characters of the
\* class, << >> when there is none
BareMatch(text) ==
    LET hits == {i \in 1..Len(text) : RunLen(text, i) >= ID_LEN}
    IN  IF hits = {} THEN << >>
        ELSE SubSeq(text, Min(hits), Min(hits) + ID_LEN - 1)

\* a resolver that tries the embed path before the 'v' parameter
ExtractVideoIdEmbedFirst(video_url) ==
    LET u == urlparse(video_url)
        v == QueryValues(u.query, <<"v">>)
    IN  IF UrlparseRaises(video_url) THEN << >>
        ELSE IF EndsWith(u.netloc, YOUTU_BE) THEN StripSlashes(u.path)
        ELSE IF Contains(u.netloc, YOUTUBE_COM) /\ EmbedMatch(u.path) # << >>
             THEN EmbedMatch(u.path)
        ELSE IF Contains(u.netloc, YOUTUBE_COM) /\ v # << >> THEN v[1]
        ELSE BareMatch(video_url)

_extract_video_id(video_url) ==
    LET u == urlparse(video_url)
        v == QueryValues(u.query, <<"v">>)
    IN  \* except Exception: return ""
        IF UrlparseRaises(video_url) THEN << >>
        ELSE IF EndsWith(u.netloc, YOUTU_BE) THEN StripSlashes(u.path)
        ELSE IF Contains(u.netloc, YOUTUBE_COM) /\ v # << >> THEN v[1]
        ELSE IF Contains(u.netloc, YOUTUBE_COM) /\ EmbedMatch(u.path) # << >>
             THEN EmbedMatch(u.path)
        ELSE BareMatch(video_url)

\* _extract_channel_id: <<kind, value>>, or NoneSeq where the function falls
\* off its end (a youtube.com URL whose path names no channel)
_extract_channel_id(channel_input) ==
    LET path == urlparse(channel_input).path
    IN  IF Contains(channel_input, YOUTUBE_COM)
        THEN \* except Exception: return ("id", channel_input)
             IF UrlparseRaises(channel_input) THEN <<"id", channel_input>>
             ELSE IF Contains(path, <<"/","c","h","a","n","n","e","l","/">>)
             THEN <<"id", Before(SplitSecond(path, <<"/","c","h","a","n","n","e","l","/">>), <<"/">>)>>
             ELSE IF Contains(path, <<"/","@">>)
             THEN <<"username", Before(SplitSecond(path, <<"/","@">>), <<"/">>)>>
             ELSE IF Contains(path, <<"/","c","/">>) \/ Contains(path, <<"/","u","s","e","r","/">>)
             THEN <<"username", AfterLastSlash(path)>>
             ELSE NoneSeq
        ELSE IF StartsWith(channel_input, <<"@">>)
             THEN <<"username", From(channel_input, 2)>>
             ELSE <<"id", channel_input>>

\* the playlist-ID extraction of get_playlist_artists and get_playlist_details
ResolvePlaylistId(playlistUrl) ==
    LET l == QueryValues(urlparse(playlistUrl).query, <<"l","i","s","t">>)
    IN  IF Contains(playlistUrl, YOUTUBE_COM) /\ l # << >> THEN l[1]
        ELSE playlistUrl

(***************************************************************************)
(* Inputs of the tools: the texts a caller passes.                         *)
(***************************************************************************)
URL_SHORT == <<"h","t","t","p","s",":","/","/","y","o","u","t","u",".","b","e","/","d","Q","w","4","w","9","W","g","X","c","Q">>
URL_WATCH == <<"h","t","t","p","s",":","/","/","w","w","w",".","y","o","u","t","u","b","e",".","c","o","m","/","w","a","t","c","h","?","v","=","d","Q","w","4","w","9","W","g","X","c","Q">>
NOT_A_URL == <<"n","o","t"," ","a"," ","u","r","l">>
CH_AT_URL == <<"h","t","t","p","s",":","/","/","w","w","w",".","y","o","u","t","u","b","e",".","c","o","m","/","@","n","a","m","e">>
CH_BARE == <<"U","C","a","b">>
CH_OTHER_URL == <<"h","t","t","p","s",":","/","/","w","w","w",".","y","o","u","t","u","b","e",".","c","o","m","/","f","e","e","d">>
PL_URL == <<"h","t","t","p","s",":","/","/","w","w","w",".","y","o","u","t","u","b","e",".","c","o","m","/","p","l","a","y","l","i","s","t","?","l","i","s","t","=","P","L","a","b">>

VideoUrls == {URL_SHORT, URL_WATCH, NOT_A_URL}
ChannelInputs == {CH_AT_URL, CH_BARE, CH_OTHER_URL}
PL_BARE == <<"P","L","a","b">>
PlaylistUrls == {PL_URL, PL_BARE}

\* pieces of the texts below
HTTPS == <<"h","t","t","p","s",":","/","/">>
HTTP == <<"h","t","t","p",":","/","/">>
WWW == <<"w","w","w",".">>
MOBILE == <<"m",".">>
WATCH_V == <<"/","w","a","t","c","h","?","v","=">>
VIDEO_A == <<"d","Q","w","4","w","9","W","g","X","c","Q">>
VIDEO_B == <<"a","_","b","-","c","1","D","2","e","3","F">>
VideoIds == {VIDEO_A, VIDEO_B}

\* the texts that denote the video id: short links, watch URLs, embed URLs
\* and bare ids
ShortLinks(id) ==
    {HTTPS \o YOUTU_BE \o <<"/">> \o id,
     HTTPS \o YOUTU_BE \o <<"/">> \o id \o <<"?","t","=","4","2">>,
     HTTP \o YOUTU_BE \o <<"/">> \o id \o <<"/">>}
WatchUrls(id) ==
    {HTTPS \o WWW \o YOUTUBE_COM \o WATCH_V \o id,
     HTTPS \o MOBILE \o YOUTUBE_COM \o WATCH_V \o id \o <<"&","t","=","4","2">>,
     HTTPS \o WWW \o YOUTUBE_COM \o <<"/","w","a","t","c","h","?","t","=","4","2","&","v","=">> \o id}
EmbedUrls(id) ==
    {HTTPS \o WWW \o YOUTUBE_COM \o EMBED \o id,
     HTTPS \o WWW \o YOUTUBE_COM \o EMBED \o id \o <<"?","s","t","a","r","t","=","1">>}
BareIds(id) ==
    {id, <<"s","e","e"," ">> \o id \o <<" ","n","o","w">>}
\* texts in which two patterns name two videos: id by the earlier pattern
\* (short link before 'v', 'v' before embed, embed before the bare token),
\* other by the later one
TwoPatterns(id, other) ==
    {HTTPS \o YOUTU_BE \o <<"/">> \o id \o <<"?","v","=">> \o other,
     HTTPS \o WWW \o YOUTUBE_COM \o EMBED \o other \o <<"?","v","=">> \o id,
     HTTPS \o WWW \o YOUTUBE_COM \o <<"/">> \o other \o EMBED \o id}
\* texts no pattern matches, and texts urlparse does not accept
NoVideoTexts ==
    {NOT_A_URL, << >>, CH_OTHER_URL, HTTPS \o YOUTU_BE \o <<"/">>,
     <<"s","h","o","r","t","_","i","d">>, HTTP \o <<"[">>, HTTP \o <<"[">> \o VIDEO_A}
VideoTexts ==
    NoVideoTexts \cup UNION {ShortLinks(id) \cup WatchUrls(id) \cup EmbedUrls(id)
                                 \cup BareIds(id) \cup TwoPatterns(id, CHOOSE o \in VideoIds : o # id) :
                             id \in VideoIds}

\* channel arguments: /channel/ URLs, handles, /c/ and /user/ URLs, the rest
CH_NAME == <<"n","a","m","e">>
CH_CHANNEL_URL == HTTPS \o WWW \o YOUTUBE_COM \o <<"/","c","h","a","n","n","e","l","/">> \o CH_BARE
CH_C_URL == HTTPS \o WWW \o YOUTUBE_COM \o <<"/","c","/">> \o CH_NAME
CH_USER_URL == HTTPS \o WWW \o YOUTUBE_COM \o <<"/","u","s","e","r","/">> \o CH_NAME
VIDEOS_TAB == <<"/","v","i","d","e","o","s">>
ChannelTexts ==
    {CH_CHANNEL_URL, CH_CHANNEL_URL \o VIDEOS_TAB,
     <<"@">> \o CH_NAME, CH_AT_URL, CH_AT_URL \o VIDEOS_TAB,
     CH_C_URL, CH_USER_URL, CH_C_URL \o VIDEOS_TAB, CH_USER_URL \o <<"/">>,
     CH_BARE, CH_NAME, CH_OTHER_URL, YOUTUBE_COM,
     HTTPS \o YOUTU_BE \o <<"/","x">>, HTTP \o <<"[">> \o YOUTUBE_COM}
\* the caps a caller asks for: small ones, and one just past a page of size
Caps(size) == (-1..MaxCap) \cup {size + 1}

(***************************************************************************)
(* The record normalisers.  Fields a tool copies unread from the upstream  *)
(* item (title, author, thumbnails, ...) are left out.                     *)
(***************************************************************************)
\* a normaliser that drops the parent
PackCommentNoParent(item, parent_id) ==
    [id |-> IF item.present THEN item.id ELSE NoneSeq, parentId |-> NoneSeq]

\* _pack_comment(item, parent_id): item is [present, id]; an absent item is
\* the empty dict, whose id reads None
_pack_comment(item, parent_id) ==
    [id |-> IF item.present THEN item.id ELSE NoneSeq, parentId |-> parent_id]

\* int() of a count the upstream gives as decimal text
RECURSIVE DecimalValue(_)
DecimalValue(t) ==
    IF t = << >> THEN 0
    ELSE 10 * DecimalValue(SubSeq(t, 1, Len(t) - 1))
         + (CHOOSE d \in 0..9 : <<"0","1","2","3","4","5","6","7","8","9">>[d + 1] = t[Len(t)])

\* int(statistics.get(name, 0)): a missing count (NoneSeq) reads 0
IntOf(t) == IF t = NoneSeq THEN 0 ELSE DecimalValue(t)

\* a text field the upstream item does not carry (no text is this: a text is
\* a tuple of single characters)
Absent == <<"absent">>

\* text[:n], n >= 0
Prefix(text, n) == SubSeq(text, 1, Min({n, Len(text)}))

\* snippet.get("description", "")[:200]
Description(description) ==
    Prefix(IF description = Absent THEN << >> ELSE description, DESC_LIMIT)

\* x["snippet"]["description"][:200], as [raised, value]: the subscript
\* raises KeyError for an absent key
ListedDescription(description) ==
    IF description = Absent THEN [raised |-> TRUE, value |-> << >>]
    ELSE [raised |-> FALSE, value |-> Prefix(description, DESC_LIMIT)]

\* playlist_info["snippet"]["description"], as [raised, value]
DetailDescription(description) ==
    IF description = Absent THEN [raised |-> TRUE, value |-> << >>]
    ELSE [raised |-> FALSE, value |-> description]

\* _pack_video(item)
_pack_video(item) ==
    [videoId |-> item.id,
     publishedAt |-> item.publishedAt,
     description |-> Description(item.description),
     viewCount |-> IntOf(item.viewCount),
     likeCount |-> IntOf(item.likeCount)]

\* _pack_artist(item)
_pack_artist(item) ==
    [channelId |-> item.id,
     description |-> Description(item.description),
     subscriberCount |-> IntOf(item.subscriberCount)]

\* the characters of a timestamp, in code-point order
CodePoints == <<"-","0","1","2","3","4","5","6","7","8","9",":","T","Z">>
CodePoint(c) == CHOOSE i \in 1..Len(CodePoints) : CodePoints[i] = c

\* a > b for Python strings: by the first character that differs, a proper
\* prefix being the smaller
StrGreater(a, b) ==
    LET n == Min({Len(a), Len(b)})
        diff == {i \in 1..n : a[i] # b[i]}
    IN  IF diff = {} THEN Len(a) > Len(b)
        ELSE CodePoint(a[Min(diff)]) > CodePoint(b[Min(diff)])

\* key(x) > key(y) for the sort key named: counts as numbers, the
\* publication date as text
KeyGreater(key, x, y) ==
    IF key = "viewCount" THEN x.viewCount > y.viewCount
    ELSE IF key = "likeCount" THEN x.likeCount > y.likeCount
    ELSE IF key = "publishedAt" THEN StrGreater(x.publishedAt, y.publishedAt)
    ELSE x.subscriberCount > y.subscriberCount

\* list.sort(key=lambda x: x[key], reverse=True): the sort is stable, so an
\* element goes after those with a greater key and after the earlier ones
\* with an equal key
SortDescending(seq, key) ==
    LET n == Len(seq)
        rank == List([i \in 1..n |->
                  Cardinality({j \in 1..n : KeyGreater(key, seq[j], seq[i])})
                  + Cardinality({j \in 1..(i - 1) :
                        ~KeyGreater(key, seq[j], seq[i]) /\ ~KeyGreater(key, seq[i], seq[j])})
                  + 1])
    IN  List([p \in 1..n |-> seq[CHOOSE i \in 1..n : rank[i] = p]])

\* seq[:n] for a list
Slice(seq, n) ==
    IF n >= 0 THEN SubSeq(seq, 1, Min({n, Len(seq)}))
    ELSE SubSeq(seq, 1, Max({Len(seq) + n, 0}))

(***************************************************************************)
(* The state.                                                              *)
(***************************************************************************)
VARIABLES
    YT_API_KEY,   \* the process-wide cached credential, None until resolved
    argv,         \* sys.argv
    environ,      \* os.getenv("YOUTUBE_API_KEY"), "" when unset or empty
    pc,           \* "__main__" (the script about to run), "sys.exit(1)", "idle",
                  \* "await" (an upstream request is in flight), "done"
    tool,         \* the tool being invoked
    max,          \* its cap (max, or max_videos)
    order,        \* its order argument, as the tool holds it
    ident,        \* the resolved video_id / channel_id / playlist_id
    client,       \* the httpx.AsyncClient: "none", "open", "closed"
    items,        \* the accumulator (items, videos, playlists, artists)
    page_token,   \* the cursor the next page request carries, NoneSeq if none
    page_data,    \* what the tool keeps of the last page while details load
    req,          \* the upstream request in flight
    result,       \* the payload the invocation returned
    upstream,     \* the upstream resource: its pages and what it has served
    hist,         \* the history of this invocation (a ghost)
    refused,      \* the last call found no credential and none was made since
                  \* (a ghost)
    arg           \* the text handed to a resolver that runs alone

vars == <<YT_API_KEY, argv, environ, pc, tool, max, order, ident, client,
          items, page_token, page_data, req, result, upstream, hist, refused,
          arg>>

NoReq == [path |-> "none", param |-> "none", maxResults |-> 0,
          pageToken |-> NoneSeq, ids |-> << >>, key |-> None]
NoResult == [prefix |-> "none", keys |-> {}, total |-> 0, list |-> << >>]
NoPage == [nextPageToken |-> NoneSeq, asked |-> 0]

\* a paginated request counts as a page request
PagePaths == {"commentThreads", "playlistItems"}

(***************************************************************************)
(* The credential: _get_yt_api_key as [raised, key], key the cache after   *)
(* the call.                                                               *)
(***************************************************************************)
\* a resolution that never reads the cache
GetKeyUncached(cache, args, env) ==
    LET flagAt == {i \in 1..Len(args) : args[i] = "--yt-key"}
    IN  IF flagAt # {}
        THEN IF Min(flagAt) + 1 <= Len(args)
             THEN [raised |-> FALSE, key |-> args[Min(flagAt) + 1]]
             ELSE [raised |-> TRUE, key |-> None]
        ELSE IF env # ""
             THEN [raised |-> FALSE, key |-> env]
             ELSE [raised |-> TRUE, key |-> None]

\* a resolution that reads the environment before the command line
GetKeyEnvironFirst(cache, args, env) ==
    LET flagAt == {i \in 1..Len(args) : args[i] = "--yt-key"}
    IN  IF cache # None THEN [raised |-> FALSE, key |-> cache]
        ELSE IF env # ""
             THEN [raised |-> FALSE, key |-> env]
        ELSE IF flagAt # {} /\ Min(flagAt) + 1 <= Len(args)
             THEN [raised |-> FALSE, key |-> args[Min(flagAt) + 1]]
             ELSE [raised |-> TRUE, key |-> None]

\* a resolution that, failing, leaves the empty string in the cache
GetKeyCachesFailure(cache, args, env) ==
    LET flagAt == {i \in 1..Len(args) : args[i] = "--yt-key"}
    IN  IF cache # None THEN [raised |-> FALSE, key |-> cache]
        ELSE IF flagAt # {}
             THEN IF Min(flagAt) + 1 <= Len(args)
                  THEN [raised |-> FALSE, key |-> args[Min(flagAt) + 1]]
                  ELSE [raised |-> TRUE, key |-> ""]
        ELSE IF env # ""
             THEN [raised |-> FALSE, key |-> env]
             ELSE [raised |-> TRUE, key |-> ""]

_get_yt_api_key(cache, args, env) ==
    LET flagAt == {i \in 1..Len(args) : args[i] = "--yt-key"}
    IN  IF cache # None THEN [raised |-> FALSE, key |-> cache]
        ELSE IF flagAt # {}
             THEN IF Min(flagAt) + 1 <= Len(args)
                  THEN [raised |-> FALSE, key |-> args[Min(flagAt) + 1]]
                  ELSE [raised |-> TRUE, key |-> None]
        ELSE IF env # ""
             THEN [raised |-> FALSE, key |-> env]
             ELSE [raised |-> TRUE, key |-> None]

(***************************************************************************)
(* The payloads.                                                           *)
(***************************************************************************)
\* f"ERROR: ..."
ErrorString == [prefix |-> "ERROR: ", keys |-> {}, total |-> 0, list |-> << >>]
\* json.dumps({...}): a JSON object with these keys, this count and this list
JsonObject(keys, total, list) ==
    [prefix |-> "{", keys |-> keys, total |-> total, list |-> list]

\* an except clause that lets what was raised cross the call boundary
ExceptHandlerReraises(exc) == [prefix |-> "raised", keys |-> {}, total |-> 0, list |-> << >>]
\* an except clause that reports the failure beside what was accumulated
ExceptHandlerPartial(exc) == [prefix |-> "ERROR: ", keys |-> {}, total |-> Len(items), list |-> items]

\* the except clause that ends every tool: whatever was raised inside the try
\* becomes the ERROR string
ExceptHandler(exc) == ErrorString

(***************************************************************************)
(* The upstream service.  A resource has upstream.pages pages; a cursor    *)
(* <<k>> says that k pages were consumed.  A cyclic upstream hands out a   *)
(* cursor on its last page too, back to the first page.                    *)
(***************************************************************************)
\* the page a request carrying cursor tok asks for
PageIndex(tok) == IF tok = NoneSeq THEN 1 ELSE tok[1] + 1

\* the nextPageToken of page idx, NoneSeq when the response carries none
NextToken(idx) ==
    IF idx < upstream.pages THEN <<idx>>
    ELSE IF upstream.cyclic THEN <<0>> ELSE NoneSeq

\* what the upstream served in the pages before page idx, the page in flight
ServedBefore(idx) == IF idx = 1 THEN 0 ELSE upstream.served

\* a comment thread numbered t: its top-level comment <<t, 0>> (absent when
\* the thread carries none) and its replies <<t, 1>>, <<t, 2>>, ...
Thread(t, hasTop, nrep) ==
    [top |-> [present |-> hasTop, id |-> IF hasTop THEN <<t, 0>> ELSE NoneSeq],
     replies |-> [j \in 1..nrep |-> [present |-> TRUE, id |-> <<t, j>>]]]

\* the commentThreads pages the upstream may answer with, its threads numbered
\* from base + 1.  Under a small cap: up to MaxItems threads, the first two of
\* any shape and the later ones shaped like the second.  Under a cap beyond a
\* page, where only the page count matters: a full page of asked threads
\* without replies, one thread, or no thread.
CommentPages(base, asked, cap) ==
    IF upstream.cyclic THEN {<< >>}
    ELSE IF cap <= MaxCap
    THEN UNION { { List([p \in 1..n |->
                          Thread(base + p, shape[Min({p, 2})][1], shape[Min({p, 2})][2])]) :
                     shape \in [1..Min({n, 2}) -> BOOLEAN \X (0..MaxReplies)] } :
                 n \in 0..MaxItems }
    ELSE { List([p \in 1..n |-> Thread(base + p, TRUE, 0)]) : n \in {0, 1, asked} }

\* the total length of the sequences ss[lo], ..., ss[hi], and their
\* concatenation (halving the range keeps the evaluation shallow)
RECURSIVE SumLens(_, _, _)
SumLens(ss, lo, hi) ==
    IF lo > hi THEN 0
    ELSE IF lo = hi THEN Len(ss[lo])
    ELSE SumLens(ss, lo, (lo + hi) \div 2) + SumLens(ss, (lo + hi) \div 2 + 1, hi)

RECURSIVE Concat(_, _, _)
Concat(ss, lo, hi) ==
    IF lo > hi THEN << >>
    ELSE IF lo = hi THEN ss[lo]
    ELSE Concat(ss, lo, (lo + hi) \div 2) \o Concat(ss, (lo + hi) \div 2 + 1, hi)

\* the k-th smallest element of a set of numbers
Nth(S, k) == CHOOSE x \in S : Cardinality({y \in S : y < x}) = k - 1

Y2023 == <<"2","0","2","3">>
Y2024 == <<"2","0","2","4">>
\* what the upstream may report of a video: counts as decimal text, a hidden
\* count missing (NoneSeq), a description or none
VideoStats ==
    << [viewCount |-> <<"7">>, likeCount |-> <<"1">>, publishedAt |-> Y2023,
        description |-> Absent],
       [viewCount |-> <<"7">>, likeCount |-> <<"2">>, publishedAt |-> Y2024,
        description |-> <<"a","b">>],
       [viewCount |-> <<"1","0">>, likeCount |-> NoneSeq, publishedAt |-> Y2023,
        description |-> Absent] >>

VideoItem(id, st) ==
    [id |-> id, viewCount |-> st.viewCount, likeCount |-> st.likeCount,
     publishedAt |-> st.publishedAt, description |-> st.description]

\* the lists of IDs the upstream may answer a request for asked items with,
\* numbered base + 1, ...: never more than asked nor than a page of
\* VIDEO_PAGE, unless the upstream is one that overfills and may add an item
\* to what was asked; under a small cap up to MaxItems of them, under a cap
\* beyond a page none or as many as it may
IdPages(base, asked, cap) ==
    { List([p \in 1..n |-> base + p]) :
        n \in IF upstream.cyclic THEN {0}
              ELSE IF cap <= MaxCap
              THEN 0..Min({IF upstream.overfull /\ asked >= 1 THEN asked + 1 ELSE asked,
                           MaxItems})
              ELSE {0, Min({asked, VIDEO_PAGE})} }

PlaylistPages(base, asked, cap) == IdPages(base, asked, cap)

\* the videos the upstream may answer a lookup of ids with, in the order
\* asked: for up to MaxItems ids any of the first two missing (private,
\* deleted) or with any statistics and the later ones like the second, for
\* more ids all of them with the same statistics
VideoAnswers(ids) ==
    LET n == Len(ids)
        of(choice, i) == choice[Min({i, 2})]
        kept(choice) == {i \in 1..n : of(choice, i) # 0}
    IN  IF n <= MaxItems
        THEN { List([k \in 1..Cardinality(kept(choice)) |->
                      VideoItem(ids[Nth(kept(choice), k)],
                                VideoStats[of(choice, Nth(kept(choice), k))])]) :
                 choice \in [1..Min({n, 2}) -> 0..Len(VideoStats)] }
        ELSE { List([i \in 1..n |-> VideoItem(ids[i], VideoStats[v])]) :
                 v \in 1..Len(VideoStats) }

\* the playlists the upstream may answer a lookup of ids with, in the order
\* asked: any of the first two missing and the later ones like the second
PlaylistAnswers(ids) ==
    LET n == Len(ids)
        kept(choice) == {i \in 1..n : choice[Min({i, 2})]}
    IN  { List([k \in 1..Cardinality(kept(choice)) |-> [id |-> ids[Nth(kept(choice), k)]]]) :
            choice \in [1..Min({n, 2}) -> BOOLEAN] }

\* the owning channels of the items of a playlistItems page, 0 for an item
\* that names none: the first two free among Owners, later ones like the second
Owners == 0..2
OwnerPages(asked, cap) ==
    UNION { { List([p \in 1..n |-> owner[Min({p, 2})]]) :
                owner \in [1..Min({n, 2}) -> IF cap <= MaxCap THEN Owners ELSE {1}] } :
            n \in IF cap <= MaxCap THEN 0..Min({asked, MaxItems})
                  ELSE {0, Min({asked, VIDEO_PAGE})} }

\* the orders a set of IDs may be joined in
Orderings(S) ==
    { seq \in [1..Cardinality(S) -> S] : \A x \in S : \E i \in 1..Cardinality(S) : seq[i] = x }

\* what the upstream may report of a channel: the subscriber count as decimal
\* text, hidden counts missing
ChannelStats == << <<"5">>, <<"1","0">>, NoneSeq >>

\* the channels the upstream may answer a lookup of ids with, in the order
\* asked, any of them missing
ChannelAnswers(ids) ==
    LET n == Len(ids)
        kept(choice) == {i \in 1..n : choice[i] # 0}
    IN  { List([k \in 1..Cardinality(kept(choice)) |->
                  [id |-> ids[Nth(kept(choice), k)],
                   description |-> Absent,
                   subscriberCount |-> ChannelStats[choice[Nth(kept(choice), k)]]]]) :
            choice \in [1..n -> 0..Len(ChannelStats)] }

(***************************************************************************)
(* The history of an invocation.                                           *)
(***************************************************************************)
\* counters stop here (a cyclic upstream never ends an invocation)
CountCap == 3 * MaxPages + 4
Bump(n) == IF n < CountCap THEN n + 1 ELSE n

NoHist == [nreq |-> 0,          \* upstream requests issued
           nresp |-> 0,         \* responses (or failures) that came back
           npage |-> 0,         \* page requests issued
           cause |-> "none",    \* why the invocation failed, "none" if it has not
           afterFail |-> 0,     \* requests issued after an upstream failure
           allFull |-> TRUE,    \* every page so far added as many records as asked
           exhausted |-> FALSE, \* the last page carried no cursor
           enough |-> FALSE,    \* the upstream has delivered at least max records
           fetched |-> << >>]   \* get_channel_videos: the videos before the sort

\* _yt_get up to its await: the request, the cached credential its key
_yt_get(path, param, maxResults, pageToken, ids) ==
    [path |-> path, param |-> param, maxResults |-> maxResults,
     pageToken |-> pageToken, ids |-> ids,
     key |-> _get_yt_api_key(YT_API_KEY', argv, environ).key]

\* the history after a step of the coroutine: a step taken from an await
\* resumes it with what came back for the request in flight
Resumed(h) == IF pc = "await" THEN [h EXCEPT !.nresp = Bump(@)] ELSE h

\* a history that counts a request issued together with the one after it
IssuedAhead(h, r) ==
    [h EXCEPT !.nreq = Bump(Bump(@)),
              !.npage = IF r.path \in PagePaths THEN Bump(@) ELSE @,
              !.afterFail = IF h.cause # "none" THEN Bump(@) ELSE @]

\* the history after request r is issued
Issued(h, r) ==
    [h EXCEPT !.nreq = Bump(@),
              !.npage = IF r.path \in PagePaths THEN Bump(@) ELSE @,
              !.afterFail = IF h.cause # "none" THEN Bump(@) ELSE @]

\* the coroutine suspends on request r
Await(r, h) ==
    /\ pc' = "await"
    /\ req' = r
    /\ client' = "open"
    /\ result' = NoResult
    /\ hist' = Issued(Resumed(h), r)

\* the coroutine returns payload; cl is the client after the return
Return(payload, cl, h) ==
    /\ pc' = "done"
    /\ req' = NoReq
    /\ client' = cl
    /\ result' = payload
    /\ hist' = Resumed(h)

\* the locals of a fresh invocation
Enter(t, m, ord, id, pages) ==
    /\ tool' = t
    /\ max' = m
    /\ order' = ord
    /\ ident' = id
    /\ items' = << >>
    /\ page_token' = NoneSeq
    /\ page_data' = NoPage
    /\ upstream' = [upstream EXCEPT !.pages = pages, !.served = 0]

\* an identifier check made inside the client's block
InvalidVideoUrlInsideClient ==
    Return(ErrorString, "closed", [NoHist EXCEPT !.cause = "parse"])

\* if not video_id: return "ERROR: Invalid YouTube video URL or ID", ahead of
\* the try and of the client
InvalidVideoUrl ==
    Return(ErrorString, "none", [NoHist EXCEPT !.cause = "parse"])

\* what an invocation never changes after its first step
Frame == UNCHANGED <<YT_API_KEY, argv, environ, refused, arg, tool, max, order, ident>>

\* a lookup that, finding nothing, asks again
NotFoundContinues == Await(req, [hist EXCEPT !.cause = "notfound"])

\* a request that, failing, is issued again
FailsRetry(exc) ==
    /\ pc = "await"
    /\ Frame
    /\ UNCHANGED <<items, page_token, page_data, upstream>>
    /\ Await(req, [hist EXCEPT !.cause = exc])

\* a failure handled without leaving the client's block
FailsLeaksClient(exc) ==
    /\ pc = "await"
    /\ Frame
    /\ UNCHANGED <<items, page_token, page_data, upstream>>
    /\ Return(ErrorString, "open", [hist EXCEPT !.cause = exc])

\* a primary lookup comes back with no items: return "ERROR: ... not found"
NotFound == Return(ErrorString, "closed", [hist EXCEPT !.cause = "notfound"])

\* what comes back for the request in flight raises inside the try (exc
\* "upstream": _yt_get raises on a non-2xx status or a transport failure;
\* "malformed": the response is not of the shape the tool reads): the except
\* clause returns, the client is released on the way out
Fails(exc) ==
    /\ pc = "await"
    /\ Frame
    /\ UNCHANGED <<items, page_token, page_data, upstream>>
    /\ Return(ExceptHandler(exc), "closed", [hist EXCEPT !.cause = exc])

(***************************************************************************)
(* fetch_comments                                                          *)
(***************************************************************************)
\* the body of the for loop for one thread: the top-level comment if the
\* thread has one, then every reply with that comment's id as its parent
ThreadRecords(th) ==
    (IF th.top.present THEN <<_pack_comment(th.top, NoneSeq)>> ELSE << >>)
    \o [j \in 1..Len(th.replies) |->
          _pack_comment(th.replies[j],
                        IF th.top.present THEN th.top.id ELSE NoneSeq)]

\* the least k in lo..hi with Len(acc) + |ss[1]| + ... + |ss[k]| >= cap, hi + 1
\* when there is none (the lengths only grow with k: a search by halving)
RECURSIVE FirstReaching(_, _, _, _, _)
FirstReaching(ss, base, cap, lo, hi) ==
    IF lo > hi THEN lo
    ELSE LET mid == (lo + hi) \div 2
         IN  IF base + SumLens(ss, 1, mid) >= cap
             THEN FirstReaching(ss, base, cap, lo, mid - 1)
             ELSE FirstReaching(ss, base, cap, mid + 1, hi)

\* the for loop over the threads of a page: each thread is appended whole, and
\* the loop breaks at the end of the first thread that leaves len(items) >= max
FlattenThreads(acc, threads, cap) ==
    LET n == Len(threads)
        recs == List([k \in 1..n |-> ThreadRecords(threads[k])])
        first == FirstReaching(recs, Len(acc), cap, 1, n)
        last == IF first > n THEN n ELSE first
    IN  acc \o Concat(recs, 1, last)

\* the number of comments (top-level and replies) a page of threads holds
CommentsIn(threads) ==
    SumLens(List([k \in 1..Len(threads) |-> ThreadRecords(threads[k])]), 1, Len(threads))

\* a request that leaves the cursor out
CommentsRequestFirstPage(token) ==
    _yt_get("commentThreads", "videoId", COMMENT_PAGE, NoneSeq, << >>)

\* the request of one iteration of the while loop
CommentsRequest(token) ==
    _yt_get("commentThreads", "videoId", COMMENT_PAGE, token, << >>)

\* json.dumps({"video_id", "order", "total_returned", "items"})
CommentsPayload(list) ==
    JsonObject({"video_id", "order", "total_returned", "items"}, Len(list), list)

\* from the call to the first request, or to the return
FetchComments_Call ==
    /\ pc = "idle"
    /\ \E videoUrl \in VideoUrls, ord \in {"relevance", "time", "newest"},
          m \in Caps(COMMENT_PAGE), pages \in 1..MaxPages :
         LET k == _get_yt_api_key(YT_API_KEY, argv, environ)
             video_id == _extract_video_id(videoUrl)
         IN  /\ YT_API_KEY' = k.key
             /\ UNCHANGED <<argv, environ, arg>> /\ refused' = FALSE
             /\ Enter("fetch_comments", m,
                      IF ord \in {"relevance", "time"} THEN ord ELSE "relevance",
                      video_id, pages)
             /\ IF k.raised
                THEN Return(ErrorString, "none", [NoHist EXCEPT !.cause = "credential"])
                ELSE IF video_id = << >>
                THEN InvalidVideoUrl
                ELSE IF 0 < m
                THEN Await(CommentsRequest(NoneSeq), NoHist)
                ELSE Return(CommentsPayload(<< >>), "closed", NoHist)

\* the page request fails (a non-2xx status, a transport failure): _yt_get
\* raises, the except clause returns
FetchComments_PageFails == tool = "fetch_comments" /\ Fails("upstream")

\* the page is no JSON object: reading it raises
FetchComments_PageMalformed == tool = "fetch_comments" /\ Fails("malformed")

\* a page arrives: flatten it, take its cursor, go round the while loop
FetchComments_Page ==
    /\ pc = "await" /\ tool = "fetch_comments"
    /\ Frame
    /\ LET idx == PageIndex(req.pageToken)
           base == ServedBefore(idx)
       IN  \E threads \in CommentPages(base, req.maxResults, max) :
             LET flat == FlattenThreads(items, threads, max)
                 token == NextToken(idx)
                 more == token # NoneSeq /\ Len(flat) < max
                 h == [hist EXCEPT
                         !.allFull = @ /\ Len(flat) - Len(items) = req.maxResults,
                         !.exhausted = (token = NoneSeq),
                         !.enough = Len(items) + CommentsIn(threads) >= max]
             IN  /\ items' = flat
                 /\ page_token' = token
                 /\ page_data' = NoPage
                 /\ upstream' = IF more
                                THEN [upstream EXCEPT !.served = base + Len(threads)]
                                ELSE upstream
                 /\ IF more
                    THEN Await(CommentsRequest(token), h)
                    ELSE Return(CommentsPayload(flat), "closed", h)

(***************************************************************************)
(* get_channel_videos                                                      *)
(***************************************************************************)
CHANNEL_ID == <<"U","C","a","b">>

\* the request of one iteration of the while loop
ChannelPageRequest(videos, token) ==
    _yt_get("playlistItems", "playlistId", Min({VIDEO_PAGE, max - Len(videos)}),
            token, << >>)

Reverse(seq) == List([i \in 1..Len(seq) |-> seq[Len(seq) + 1 - i]])

\* a sort that is descending but puts records with equal keys in the reverse
\* of their upstream order
SortVideosTiesReversed(videos, ord) ==
    IF ord = "viewCount" THEN SortDescending(Reverse(videos), "viewCount")
    ELSE IF ord = "date" THEN SortDescending(Reverse(videos), "publishedAt")
    ELSE IF ord = "rating" THEN SortDescending(Reverse(videos), "likeCount")
    ELSE videos

\* videos.sort(...) by the order argument; any other order leaves the list
SortVideos(videos, ord) ==
    IF ord = "viewCount" THEN SortDescending(videos, "viewCount")
    ELSE IF ord = "date" THEN SortDescending(videos, "publishedAt")
    ELSE IF ord = "rating" THEN SortDescending(videos, "likeCount")
    ELSE videos

\* json.dumps({..., "total_returned": len(videos), "videos": videos[:max]})
ChannelVideosPayload(sorted) ==
    JsonObject({"channelId", "channelTitle", "channelDescription",
                "subscriberCount", "videoCount", "order", "total_returned",
                "videos"},
               Len(sorted), Slice(sorted, max))

\* a loop that goes round once more when the cap is just reached
ChannelVideosLoopOffByOne(videos, token, h) ==
    /\ page_token' = token
    /\ page_data' = NoPage
    /\ IF token # NoneSeq /\ Len(videos) <= max
       THEN /\ items' = videos
            /\ Await(ChannelPageRequest(videos, token), h)
       ELSE /\ items' = SortVideos(videos, order)
            /\ Return(ChannelVideosPayload(SortVideos(videos, order)), "closed",
                      [h EXCEPT !.fetched = videos])

\* the end of an iteration of the while loop: break, or go round again
ChannelVideosLoop(videos, token, h) ==
    /\ page_token' = token
    /\ page_data' = NoPage
    /\ IF token # NoneSeq /\ Len(videos) < max
       THEN /\ items' = videos
            /\ Await(ChannelPageRequest(videos, token), h)
       ELSE /\ items' = SortVideos(videos, order)
            /\ Return(ChannelVideosPayload(SortVideos(videos, order)), "closed",
                      [h EXCEPT !.fetched = videos])

GetChannelVideos_Call ==
    /\ pc = "idle"
    /\ \E channelInput \in ChannelInputs,
          ord \in {"viewCount", "date", "rating", "relevance"},
          m \in Caps(VIDEO_PAGE), pages \in 1..MaxPages :
         LET k == _get_yt_api_key(YT_API_KEY, argv, environ)
             parsed == _extract_channel_id(channelInput)
         IN  /\ YT_API_KEY' = k.key
             /\ UNCHANGED <<argv, environ, arg>> /\ refused' = FALSE
             /\ Enter("get_channel_videos", m, ord,
                      IF parsed # NoneSeq /\ parsed[1] = "id" THEN parsed[2] ELSE << >>,
                      pages)
             /\ IF k.raised
                THEN Return(ErrorString, "none", [NoHist EXCEPT !.cause = "credential"])
                ELSE IF parsed = NoneSeq
                \* id_type, identifier = None raises inside the try
                THEN Return(ExceptHandler("parse"), "closed", [NoHist EXCEPT !.cause = "parse"])
                ELSE IF parsed[1] = "username"
                THEN Await(_yt_get("channels", "forHandle", 0, NoneSeq, <<parsed[2]>>), NoHist)
                ELSE Await(_yt_get("channels", "id", 0, NoneSeq, <<parsed[2]>>), NoHist)

\* the request in flight fails: _yt_get raises, the except clause returns
GetChannelVideos_Raises == tool = "get_channel_videos" /\ Fails("upstream")

\* the response is not of the shape the tool reads: a KeyError, a TypeError
GetChannelVideos_Malformed == tool = "get_channel_videos" /\ Fails("malformed")

\* the answer to the lookup by handle
GetChannelVideos_Handle ==
    /\ pc = "await" /\ tool = "get_channel_videos"
    /\ req.path = "channels" /\ req.param = "forHandle"
    /\ UNCHANGED <<YT_API_KEY, argv, environ, refused, arg, tool, max, order>>
    /\ UNCHANGED <<items, page_token, page_data, upstream>>
    /\ \E found \in BOOLEAN :
         IF found
         THEN /\ ident' = CHANNEL_ID
              /\ Await(_yt_get("channels", "id", 0, NoneSeq, <<CHANNEL_ID>>), hist)
         ELSE /\ ident' = ident
              /\ NotFound

\* the answer to the channel lookup: the uploads playlist, then the while loop
GetChannelVideos_Channel ==
    /\ pc = "await" /\ tool = "get_channel_videos"
    /\ req.path = "channels" /\ req.param = "id"
    /\ Frame
    /\ UNCHANGED <<page_token, page_data, upstream>>
    /\ \E found \in BOOLEAN :
         IF ~found
         THEN /\ items' = items
              /\ NotFound
         ELSE IF 0 < max
         THEN /\ items' = items
              /\ Await(ChannelPageRequest(<< >>, NoneSeq), hist)
         ELSE /\ items' = SortVideos(<< >>, order)
              /\ Return(ChannelVideosPayload(SortVideos(<< >>, order)), "closed", hist)

\* a page of the uploads playlist arrives: look its videos up, or, the page
\* being empty, end the iteration
GetChannelVideos_Page ==
    /\ pc = "await" /\ tool = "get_channel_videos"
    /\ req.path = "playlistItems"
    /\ Frame
    /\ LET idx == PageIndex(req.pageToken)
           base == ServedBefore(idx)
           token == NextToken(idx)
       IN  \E video_ids \in PlaylistPages(base, req.maxResults, max) :
             /\ upstream' = [upstream EXCEPT !.served = base + Len(video_ids)]
             /\ IF video_ids # << >>
                THEN /\ items' = items
                     /\ page_token' = page_token
                     /\ page_data' = [nextPageToken |-> token, asked |-> req.maxResults]
                     /\ Await(_yt_get("videos", "id", 0, NoneSeq, video_ids), hist)
                ELSE ChannelVideosLoop(items, token,
                        [hist EXCEPT !.allFull = @ /\ req.maxResults = 0,
                                     !.exhausted = (token = NoneSeq)])

\* the videos of a page arrive: pack them, end the iteration
GetChannelVideos_Details ==
    /\ pc = "await" /\ tool = "get_channel_videos"
    /\ req.path = "videos"
    /\ Frame
    /\ UNCHANGED upstream
    /\ \E answer \in VideoAnswers(req.ids) :
         ChannelVideosLoop(
            items \o List([i \in 1..Len(answer) |-> _pack_video(answer[i])]),
            page_data.nextPageToken,
            [hist EXCEPT !.allFull = @ /\ Len(answer) = page_data.asked,
                         !.exhausted = (page_data.nextPageToken = NoneSeq)])

(***************************************************************************)
(* get_playlist_details                                                    *)
(***************************************************************************)
\* the request of one iteration of the while loop
PlaylistPageRequest(videos, token) ==
    _yt_get("playlistItems", "playlistId", Min({VIDEO_PAGE, max - Len(videos)}),
            token, << >>)

\* json.dumps({..., "videos": videos, "total_videos_returned": len(videos)})
PlaylistDetailsPayload(videos) ==
    JsonObject({"playlistId", "title", "description", "channelTitle",
                "channelId", "publishedAt", "privacyStatus", "thumbnails",
                "videoCount", "videos", "total_videos_returned"},
               Len(videos), videos)

\* a loop that does not stop when the upstream hands out no cursor
PlaylistDetailsLoopUnending(videos, token, h) ==
    /\ page_token' = token
    /\ page_data' = NoPage
    /\ items' = videos
    /\ IF Len(videos) < max
       THEN Await(PlaylistPageRequest(videos, token), h)
       ELSE Return(PlaylistDetailsPayload(videos), "closed", h)

\* a loop that goes round for as long as the upstream hands out a cursor,
\* whatever it has accumulated
PlaylistDetailsLoopPastCap(videos, token, h) ==
    /\ page_token' = token
    /\ page_data' = NoPage
    /\ items' = videos
    /\ IF token # NoneSeq
       THEN Await(PlaylistPageRequest(videos, token), h)
       ELSE Return(PlaylistDetailsPayload(videos), "closed", h)

\* the end of an iteration of the while loop: break, or go round again
PlaylistDetailsLoop(videos, token, h) ==
    /\ page_token' = token
    /\ page_data' = NoPage
    /\ items' = videos
    /\ IF token # NoneSeq /\ Len(videos) < max
       THEN Await(PlaylistPageRequest(videos, token), h)
       ELSE Return(PlaylistDetailsPayload(videos), "closed", h)

GetPlaylistDetails_Call ==
    /\ pc = "idle"
    /\ \E playlistUrl \in PlaylistUrls, m \in Caps(VIDEO_PAGE), pages \in 1..MaxPages :
         LET k == _get_yt_api_key(YT_API_KEY, argv, environ)
             playlist_id == ResolvePlaylistId(playlistUrl)
         IN  /\ YT_API_KEY' = k.key
             /\ UNCHANGED <<argv, environ, arg>> /\ refused' = FALSE
             /\ Enter("get_playlist_details", m, "none", playlist_id, pages)
             /\ IF k.raised
                THEN Return(ErrorString, "none", [NoHist EXCEPT !.cause = "credential"])
                ELSE Await(_yt_get("playlists", "id", 0, NoneSeq, <<playlist_id>>), NoHist)

\* the request in flight fails: _yt_get raises, the except clause returns
GetPlaylistDetails_Raises == tool = "get_playlist_details" /\ Fails("upstream")

\* the response is not of the shape the tool reads: a KeyError, a TypeError
GetPlaylistDetails_Malformed == tool = "get_playlist_details" /\ Fails("malformed")

\* the answer to the playlist lookup, then the while loop
GetPlaylistDetails_Playlist ==
    /\ pc = "await" /\ tool = "get_playlist_details"
    /\ req.path = "playlists"
    /\ Frame
    /\ UNCHANGED <<items, page_token, page_data, upstream>>
    /\ \E found \in BOOLEAN :
         IF ~found
         THEN NotFound
         ELSE IF 0 < max
         THEN Await(PlaylistPageRequest(<< >>, NoneSeq), hist)
         ELSE Return(PlaylistDetailsPayload(<< >>), "closed", hist)

\* a page whose videos are looked up one short: the last ID is left out
GetPlaylistDetails_PageDropsLast ==
    /\ pc = "await" /\ tool = "get_playlist_details"
    /\ req.path = "playlistItems"
    /\ Frame
    /\ LET idx == PageIndex(req.pageToken)
           base == ServedBefore(idx)
           token == NextToken(idx)
       IN  \E video_ids \in PlaylistPages(base, req.maxResults, max) :
             /\ upstream' = [upstream EXCEPT !.served = base + Len(video_ids)]
             /\ IF Len(video_ids) > 1
                THEN /\ items' = items
                     /\ page_token' = page_token
                     /\ page_data' = [nextPageToken |-> token, asked |-> req.maxResults]
                     /\ Await(_yt_get("videos", "id", 0, NoneSeq,
                                      SubSeq(video_ids, 1, Len(video_ids) - 1)), hist)
                ELSE PlaylistDetailsLoop(items, token,
                        [hist EXCEPT !.allFull = @ /\ req.maxResults = 0,
                                     !.exhausted = (token = NoneSeq)])

\* a page of the playlist arrives: look its videos up, or, the page being
\* empty, end the iteration
GetPlaylistDetails_Page ==
    /\ pc = "await" /\ tool = "get_playlist_details"
    /\ req.path = "playlistItems"
    /\ Frame
    /\ LET idx == PageIndex(req.pageToken)
           base == ServedBefore(idx)
           token == NextToken(idx)
       IN  \E video_ids \in PlaylistPages(base, req.maxResults, max) :
             /\ upstream' = [upstream EXCEPT !.served = base + Len(video_ids)]
             /\ IF video_ids # << >>
                THEN /\ items' = items
                     /\ page_token' = page_token
                     /\ page_data' = [nextPageToken |-> token, asked |-> req.maxResults]
                     /\ Await(_yt_get("videos", "id", 0, NoneSeq, video_ids), hist)
                ELSE PlaylistDetailsLoop(items, token,
                        [hist EXCEPT !.allFull = @ /\ req.maxResults = 0,
                                     !.exhausted = (token = NoneSeq)])

\* the videos of a page arrive: pack them, end the iteration
GetPlaylistDetails_Videos ==
    /\ pc = "await" /\ tool = "get_playlist_details"
    /\ req.path = "videos"
    /\ Frame
    /\ UNCHANGED upstream
    /\ \E answer \in VideoAnswers(req.ids) :
         PlaylistDetailsLoop(
            items \o List([i \in 1..Len(answer) |-> _pack_video(answer[i])]),
            page_data.nextPageToken,
            [hist EXCEPT !.allFull = @ /\ Len(answer) = page_data.asked,
                         !.exhausted = (page_data.nextPageToken = NoneSeq)])

(***************************************************************************)
(* The tools of one or two requests.  Texts they pass through unread       *)
(* (query, region, category) are left out.                                 *)
(***************************************************************************)
Unchanged == UNCHANGED <<items, page_token, page_data, upstream>>

\* the start of a tool that takes no identifier: the credential, then req
Call(t, m, ord, pages, r) ==
    LET k == _get_yt_api_key(YT_API_KEY, argv, environ)
    IN  /\ YT_API_KEY' = k.key
        /\ UNCHANGED <<argv, environ, arg>> /\ refused' = FALSE
        /\ Enter(t, m, ord, << >>, pages)
        /\ IF k.raised
           THEN Return(ErrorString, "none", [NoHist EXCEPT !.cause = "credential"])
           ELSE Await(r, NoHist)

SearchOrders == {"viewCount", "relevance"}

\* search_videos
SearchVideos_Call ==
    /\ pc = "idle"
    /\ \E ord \in SearchOrders, m \in Caps(VIDEO_PAGE) :
         Call("search_videos", m, ord, 1, _yt_get("search", "q", m, NoneSeq, << >>))

SearchVideos_Raises == tool = "search_videos" /\ Fails("upstream")
SearchVideos_Malformed == tool = "search_videos" /\ Fails("malformed")

SearchVideos_Search ==
    /\ pc = "await" /\ tool = "search_videos" /\ req.path = "search"
    /\ Frame /\ Unchanged
    /\ \E video_ids \in IdPages(0, req.maxResults, max) :
         IF video_ids = << >>
         THEN Return(JsonObject({"error", "total_returned", "videos"}, 0, << >>),
                     "closed", [hist EXCEPT !.cause = "empty"])
         ELSE Await(_yt_get("videos", "id", 0, NoneSeq, video_ids), hist)

SearchVideos_Videos ==
    /\ pc = "await" /\ tool = "search_videos" /\ req.path = "videos"
    /\ Frame /\ UNCHANGED <<page_token, page_data, upstream>>
    /\ \E answer \in VideoAnswers(req.ids) :
         LET videos == List([i \in 1..Len(answer) |-> _pack_video(answer[i])])
         IN  /\ items' = videos
             /\ Return(JsonObject({"query", "order", "total_returned", "videos"},
                                  Len(videos), videos), "closed", hist)

\* get_trending_videos
GetTrendingVideos_Call ==
    /\ pc = "idle"
    /\ \E m \in Caps(VIDEO_PAGE) :
         Call("get_trending_videos", m, "none", 1,
              _yt_get("videos", "chart", m, NoneSeq, << >>))

GetTrendingVideos_Raises == tool = "get_trending_videos" /\ Fails("upstream")
GetTrendingVideos_Malformed == tool = "get_trending_videos" /\ Fails("malformed")

GetTrendingVideos_Videos ==
    /\ pc = "await" /\ tool = "get_trending_videos"
    /\ Frame /\ UNCHANGED <<page_token, page_data, upstream>>
    /\ \E ids \in IdPages(0, req.maxResults, max) :
       \E answer \in VideoAnswers(ids) :
         LET videos == List([i \in 1..Len(answer) |-> _pack_video(answer[i])])
         IN  /\ items' = videos
             /\ Return(JsonObject({"region", "category", "total_returned", "videos"},
                                  Len(videos), videos), "closed", hist)

\* get_video_details
VideoKeys == {"videoId", "title", "channelTitle", "channelId", "publishedAt",
              "description", "thumbnails", "viewCount", "likeCount",
              "commentCount", "duration", "tags"}

GetVideoDetails_Call ==
    /\ pc = "idle"
    /\ \E videoUrl \in VideoUrls :
         LET k == _get_yt_api_key(YT_API_KEY, argv, environ)
             video_id == _extract_video_id(videoUrl)
         IN  /\ YT_API_KEY' = k.key
             /\ UNCHANGED <<argv, environ, arg>> /\ refused' = FALSE
             /\ Enter("get_video_details", 0, "none", video_id, 1)
             /\ IF k.raised
                THEN Return(ErrorString, "none", [NoHist EXCEPT !.cause = "credential"])
                ELSE IF video_id = << >>
                THEN InvalidVideoUrl
                ELSE Await(_yt_get("videos", "id", 0, NoneSeq, <<video_id>>), NoHist)

GetVideoDetails_Raises == tool = "get_video_details" /\ Fails("upstream")
GetVideoDetails_Malformed == tool = "get_video_details" /\ Fails("malformed")

GetVideoDetails_Video ==
    /\ pc = "await" /\ tool = "get_video_details"
    /\ Frame /\ UNCHANGED <<page_token, page_data, upstream>>
    /\ \E found \in BOOLEAN, v \in 1..Len(VideoStats) :
         IF ~found
         THEN /\ items' = items
              /\ NotFound
         ELSE LET video == _pack_video(VideoItem(req.ids[1], VideoStats[v]))
              IN  /\ items' = <<video>>
                  /\ Return(JsonObject(VideoKeys, 1, <<video>>), "closed", hist)

\* a search whose playlists are looked up whether it found any or not
PlaylistSearch_SearchLooksUpAnyway ==
    /\ pc = "await" /\ req.path = "search"
    /\ Frame /\ Unchanged
    /\ \E playlist_ids \in IdPages(0, req.maxResults, max) :
         Await(_yt_get("playlists", "id", 0, NoneSeq, playlist_ids), hist)

\* get_trending_playlists and search_playlists: a search, then a lookup of the
\* playlists found
PlaylistSearch_Search ==
    /\ pc = "await" /\ req.path = "search"
    /\ Frame /\ Unchanged
    /\ \E playlist_ids \in IdPages(0, req.maxResults, max) :
         IF playlist_ids = << >>
         THEN Return(JsonObject((IF tool = "search_playlists" THEN {"query", "order"}
                                 ELSE {"region"}) \cup {"total_returned", "playlists"},
                                0, << >>),
                     "closed", [hist EXCEPT !.cause = "empty"])
         ELSE Await(_yt_get("playlists", "id", 0, NoneSeq, playlist_ids), hist)

PlaylistSearch_Playlists ==
    /\ pc = "await" /\ req.path = "playlists"
    /\ Frame /\ UNCHANGED <<page_token, page_data, upstream>>
    /\ \E answer \in PlaylistAnswers(req.ids) :
         LET playlists == List([i \in 1..Len(answer) |-> [playlistId |-> answer[i].id]])
         IN  /\ items' = playlists
             /\ Return(JsonObject((IF tool = "search_playlists" THEN {"query", "order"}
                                   ELSE {"region"}) \cup {"total_returned", "playlists"},
                                  Len(playlists), playlists), "closed", hist)

GetTrendingPlaylists_Call ==
    /\ pc = "idle"
    /\ \E m \in Caps(VIDEO_PAGE) :
         Call("get_trending_playlists", m, "viewCount", 1,
              _yt_get("search", "regionCode", m, NoneSeq, << >>))

GetTrendingPlaylists_Raises == tool = "get_trending_playlists" /\ Fails("upstream")
GetTrendingPlaylists_Malformed == tool = "get_trending_playlists" /\ Fails("malformed")
GetTrendingPlaylists_Search == tool = "get_trending_playlists" /\ PlaylistSearch_Search
GetTrendingPlaylists_Playlists == tool = "get_trending_playlists" /\ PlaylistSearch_Playlists

SearchPlaylists_Call ==
    /\ pc = "idle"
    /\ \E ord \in SearchOrders, m \in Caps(VIDEO_PAGE) :
         Call("search_playlists", m, ord, 1, _yt_get("search", "q", m, NoneSeq, << >>))

SearchPlaylists_Raises == tool = "search_playlists" /\ Fails("upstream")
SearchPlaylists_Malformed == tool = "search_playlists" /\ Fails("malformed")
SearchPlaylists_Search == tool = "search_playlists" /\ PlaylistSearch_Search
SearchPlaylists_Playlists == tool = "search_playlists" /\ PlaylistSearch_Playlists

\* get_playlist_artists: one request for the playlist's items, then a lookup
\* of the channels that own them
ArtistsPayload(artists) ==
    JsonObject({"playlistId", "total_returned", "artists"}, Len(artists), artists)

GetPlaylistArtists_Call ==
    /\ pc = "idle"
    /\ \E playlistUrl \in PlaylistUrls, m \in Caps(VIDEO_PAGE), pages \in 1..MaxPages :
         LET k == _get_yt_api_key(YT_API_KEY, argv, environ)
             playlist_id == ResolvePlaylistId(playlistUrl)
         IN  /\ YT_API_KEY' = k.key
             /\ UNCHANGED <<argv, environ, arg>> /\ refused' = FALSE
             /\ Enter("get_playlist_artists", m, "none", playlist_id, pages)
             /\ IF k.raised
                THEN Return(ErrorString, "none", [NoHist EXCEPT !.cause = "credential"])
                ELSE Await(_yt_get("playlistItems", "playlistId", m, NoneSeq, << >>), NoHist)

GetPlaylistArtists_Raises == tool = "get_playlist_artists" /\ Fails("upstream")
GetPlaylistArtists_Malformed == tool = "get_playlist_artists" /\ Fails("malformed")

GetPlaylistArtists_Items ==
    /\ pc = "await" /\ tool = "get_playlist_artists" /\ req.path = "playlistItems"
    /\ Frame /\ UNCHANGED <<items, page_token, upstream>>
    /\ \E owners \in OwnerPages(req.maxResults, max) :
         LET channel_ids == {owners[i] : i \in 1..Len(owners)} \ {0}
             \* the response's nextPageToken is never read
             h == [hist EXCEPT !.exhausted = (NextToken(1) = NoneSeq),
                               !.enough = (Len(owners) >= max)]
         IN  /\ page_data' = [nextPageToken |-> NextToken(1), asked |-> req.maxResults]
             /\ IF channel_ids = {}
                THEN Return(ArtistsPayload(<< >>), "closed", [h EXCEPT !.cause = "empty"])
                ELSE \E joined \in Orderings(channel_ids) :
                       Await(_yt_get("channels", "id", 0, NoneSeq, joined), h)

GetPlaylistArtists_Channels ==
    /\ pc = "await" /\ tool = "get_playlist_artists" /\ req.path = "channels"
    /\ Frame /\ UNCHANGED <<page_token, page_data, upstream>>
    /\ \E answer \in ChannelAnswers(req.ids) :
         LET artists == SortDescending(
                           List([i \in 1..Len(answer) |-> _pack_artist(answer[i])]),
                           "subscriberCount")
         IN  /\ items' = artists
             /\ Return(ArtistsPayload(artists), "closed", hist)

(***************************************************************************)
(* The call boundary hands the payload to the caller; the invocation is    *)
(* over and the server waits for the next call.                            *)
(***************************************************************************)
Deliver ==
    /\ pc = "done"
    /\ pc' = "idle"
    /\ tool' = "none"
    /\ max' = 0
    /\ order' = "none"
    /\ ident' = << >>
    /\ client' = "none"
    /\ items' = << >>
    /\ page_token' = NoneSeq
    /\ page_data' = NoPage
    /\ req' = NoReq
    /\ result' = NoResult
    /\ upstream' = [upstream EXCEPT !.pages = 1, !.served = 0]
    /\ hist' = NoHist
    /\ refused' = (hist.cause = "credential")
    /\ UNCHANGED <<YT_API_KEY, argv, environ, arg>>

(***************************************************************************)
(* The specification.                                                      *)
(***************************************************************************)
\* what the process may have started with
Argvs == {<<"server.py">>, <<"server.py", "--yt-key">>,
          <<"server.py", "--yt-key", "CLIKEY">>}
Environs == {"", "ENVKEY"}
\* no credential at all, the variable alone, and the flag beside the variable
Starts == {<<a, e>> \in Argvs \X Environs : e = "" => a = <<"server.py">>}

\* what neither the start of the process nor its environment touches
Invocation == <<tool, max, order, ident, client, items, page_token, page_data,
                req, result, upstream, hist, refused, arg>>

\* __main__: the credential is resolved before the server runs; without one
\* the process ends in sys.exit(1) and mcp.run is never reached
Main ==
    /\ pc = "__main__"
    /\ LET k == _get_yt_api_key(YT_API_KEY, argv, environ)
       IN  /\ YT_API_KEY' = k.key
           /\ pc' = IF k.raised THEN "sys.exit(1)" ELSE "idle"
    /\ UNCHANGED <<argv, environ>>
    /\ UNCHANGED Invocation

\* os.getenv reads the environment at each resolution that reaches it (with
\* the flag on the command line none does): the variable is set or unset
\* while the server waits for a call
EnvironChanges ==
    /\ pc = "idle"
    /\ \A i \in 1..Len(argv) : argv[i] # "--yt-key"
    /\ \E e \in Environs : e # environ /\ environ' = e
    /\ UNCHANGED <<YT_API_KEY, argv, pc>>
    /\ UNCHANGED Invocation

InitOf(cyclics, overfulls) ==
    /\ YT_API_KEY = None
    /\ \E start \in Starts : argv = start[1] /\ environ = start[2]
    \* run as a script, or imported by a host that serves the tools
    /\ pc \in {"__main__", "idle"}
    /\ refused = FALSE
    /\ arg = << >>
    /\ tool = "none"
    /\ max = 0
    /\ order = "none"
    /\ ident = << >>
    /\ client = "none"
    /\ items = << >>
    /\ page_token = NoneSeq
    /\ page_data = NoPage
    /\ req = NoReq
    /\ result = NoResult
    /\ upstream \in [pages : {1}, cyclic : cyclics, served : {0},
                     overfull : overfulls]
    /\ hist = NoHist

\* an upstream that keeps to the size asked
InitWith(cyclics) == InitOf(cyclics, {FALSE})

Init == InitWith({FALSE})

Next ==
    \/ Main
    \/ EnvironChanges
    \/ FetchComments_Call
    \/ FetchComments_PageFails
    \/ FetchComments_PageMalformed
    \/ FetchComments_Page
    \/ GetChannelVideos_Call
    \/ GetChannelVideos_Raises
    \/ GetChannelVideos_Malformed
    \/ GetChannelVideos_Handle
    \/ GetChannelVideos_Channel
    \/ GetChannelVideos_Page
    \/ GetChannelVideos_Details
    \/ GetPlaylistDetails_Call
    \/ GetPlaylistDetails_Raises
    \/ GetPlaylistDetails_Malformed
    \/ GetPlaylistDetails_Playlist
    \/ GetPlaylistDetails_Page
    \/ GetPlaylistDetails_Videos
    \/ SearchVideos_Call
    \/ SearchVideos_Raises
    \/ SearchVideos_Malformed
    \/ SearchVideos_Search
    \/ SearchVideos_Videos
    \/ GetTrendingVideos_Call
    \/ GetTrendingVideos_Raises
    \/ GetTrendingVideos_Malformed
    \/ GetTrendingVideos_Videos
    \/ GetVideoDetails_Call
    \/ GetVideoDetails_Raises
    \/ GetVideoDetails_Malformed
    \/ GetVideoDetails_Video
    \/ GetTrendingPlaylists_Call
    \/ GetTrendingPlaylists_Raises
    \/ GetTrendingPlaylists_Malformed
    \/ GetTrendingPlaylists_Search
    \/ GetTrendingPlaylists_Playlists
    \/ SearchPlaylists_Call
    \/ SearchPlaylists_Raises
    \/ SearchPlaylists_Malformed
    \/ SearchPlaylists_Search
    \/ SearchPlaylists_Playlists
    \/ GetPlaylistArtists_Call
    \/ GetPlaylistArtists_Raises
    \/ GetPlaylistArtists_Malformed
    \/ GetPlaylistArtists_Items
    \/ GetPlaylistArtists_Channels
    \/ Deliver

Spec == Init /\ [][Next]_vars

\* an upstream whose cursors may go round for ever over empty pages, and
\* every request in flight eventually answered: by a response or by a failure;
\* the processes started without the flag (how the credential was found makes
\* no difference to a request once it is issued)
LiveInit == InitWith(BOOLEAN) /\ argv = <<"server.py">>
Respond == pc = "await" /\ Next
LiveSpec == LiveInit /\ [][Next]_vars /\ WF_vars(Respond)

\* an upstream that does not keep to maxResults: a page or a search result may
\* hold one item more than the request asked for
OverfullInit == InitOf({FALSE}, {TRUE})
OverfullSpec == OverfullInit /\ [][Next]_vars

(***************************************************************************)
(* The resolvers alone: each is applied to a text a caller may pass.       *)
(***************************************************************************)
ResolverInit ==
    /\ arg \in VideoTexts \cup ChannelTexts
    /\ YT_API_KEY = None
    /\ argv = <<"server.py">>
    /\ environ = ""
    /\ pc = "idle"
    /\ tool = "none"
    /\ max = 0
    /\ order = "none"
    /\ ident = << >>
    /\ client = "none"
    /\ items = << >>
    /\ page_token = NoneSeq
    /\ page_data = NoPage
    /\ req = NoReq
    /\ result = NoResult
    /\ upstream = [pages |-> 1, cyclic |-> FALSE, served |-> 0, overfull |-> FALSE]
    /\ hist = NoHist
    /\ refused = FALSE

\* what a resolver leaves alone
Resolved ==
    UNCHANGED <<YT_API_KEY, argv, environ, max, order, client, items, page_token,
                page_data, req, result, upstream, hist, refused, arg>>

ExtractVideoId ==
    /\ pc = "idle"
    /\ tool' = "_extract_video_id"
    /\ ident' = _extract_video_id(arg)
    /\ pc' = "done"
    /\ Resolved

ExtractChannelId ==
    /\ pc = "idle"
    /\ tool' = "_extract_channel_id"
    /\ ident' = _extract_channel_id(arg)
    /\ pc' = "done"
    /\ Resolved

ResolverNext == ExtractVideoId \/ ExtractChannelId
ResolverSpec == ResolverInit /\ [][ResolverNext]_vars

(***************************************************************************)
(* The descriptions alone: each expression that copies a description into  *)
(* a payload is applied to a description the upstream may carry.           *)
(***************************************************************************)
\* how far past DESC_LIMIT the longest description goes
MaxOverrun == 50
DescLengths == {0, 1, DESC_LIMIT - 1, DESC_LIMIT, DESC_LIMIT + 1,
                DESC_LIMIT + MaxOverrun}
DescChars == <<"a","b","c","d","e"," ","f","g","h","i">>
\* a text of n characters, its i-th the (i * k mod 10)-th of DescChars
DescText(n, k) == List([i \in 1..n |-> DescChars[((i * k) % 10) + 1]])
Descriptions == {Absent} \cup {DescText(n, k) : n \in DescLengths, k \in {1, 3, 7}}

DescriptionInit ==
    /\ arg \in Descriptions
    /\ YT_API_KEY = None
    /\ argv = <<"server.py">>
    /\ environ = ""
    /\ pc = "idle"
    /\ tool = "none"
    /\ max = 0
    /\ order = "none"
    /\ ident = << >>
    /\ client = "none"
    /\ items = << >>
    /\ page_token = NoneSeq
    /\ page_data = NoPage
    /\ req = NoReq
    /\ result = NoResult
    /\ upstream = [pages |-> 1, cyclic |-> FALSE, served |-> 0, overfull |-> FALSE]
    /\ hist = NoHist
    /\ refused = FALSE

\* what building a record leaves alone
Described ==
    UNCHANGED <<YT_API_KEY, argv, environ, max, order, ident, client, page_token,
                page_data, req, upstream, refused, arg>>

\* a tool returns the record under keys
Describes(t, keys, record) ==
    /\ pc = "idle"
    /\ tool' = t
    /\ items' = <<record>>
    /\ result' = JsonObject(keys, 1, <<record>>)
    /\ hist' = NoHist
    /\ pc' = "done"
    /\ Described

\* the subscript raised inside the tool's try: the except clause returns
DescribeRaises(t) ==
    /\ pc = "idle"
    /\ tool' = t
    /\ items' = << >>
    /\ result' = ExceptHandler("malformed")
    /\ hist' = [NoHist EXCEPT !.cause = "malformed"]
    /\ pc' = "done"
    /\ Described

\* _pack_video on an item with this description
Describe_PackVideo ==
    /\ pc = "idle"
    /\ Describes("_pack_video", {"videos"},
                 _pack_video(VideoItem(1, [VideoStats[1] EXCEPT !.description = arg])))

\* _pack_artist on a channel with this description
Describe_PackArtist ==
    /\ pc = "idle"
    /\ Describes("_pack_artist", {"artists"},
                 _pack_artist([id |-> 1, description |-> arg, subscriberCount |-> NoneSeq]))

\* "channelDescription": channel_info["snippet"]["description"][:200]
Describe_Channel ==
    /\ pc = "idle"
    /\ IF ListedDescription(arg).raised THEN DescribeRaises("get_channel_videos")
       ELSE Describes("get_channel_videos", {"channelDescription"},
                      [description |-> ListedDescription(arg).value])

\* the playlist records of get_trending_playlists
Describe_TrendingPlaylist ==
    /\ pc = "idle"
    /\ IF ListedDescription(arg).raised THEN DescribeRaises("get_trending_playlists")
       ELSE Describes("get_trending_playlists", {"playlists"},
                      [description |-> ListedDescription(arg).value])

\* the playlist records of search_playlists
Describe_SearchedPlaylist ==
    /\ pc = "idle"
    /\ IF ListedDescription(arg).raised THEN DescribeRaises("search_playlists")
       ELSE Describes("search_playlists", {"playlists"},
                      [description |-> ListedDescription(arg).value])

\* "description": playlist_info["snippet"]["description"]
Describe_PlaylistDetail ==
    /\ pc = "idle"
    /\ IF DetailDescription(arg).raised THEN DescribeRaises("get_playlist_details")
       ELSE Describes("get_playlist_details", {"description"},
                      [description |-> DetailDescription(arg).value])

DescriptionNext ==
    \/ Describe_PackVideo
    \/ Describe_PackArtist
    \/ Describe_Channel
    \/ Describe_TrendingPlaylist
    \/ Describe_SearchedPlaylist
    \/ Describe_PlaylistDetail
DescriptionSpec == DescriptionInit /\ [][DescriptionNext]_vars

(***************************************************************************)
(* The claims.                                                             *)
(***************************************************************************)
Aggregators == {"fetch_comments", "get_channel_videos", "get_playlist_details"}
Returned == pc = "done"
Succeeded == pc = "done" /\ result.prefix = "{"
Failed == pc = "done" /\ result.prefix = "ERROR: "
\* the causes that make an invocation a failed one
FailureCauses == {"credential", "parse", "notfound", "upstream", "malformed"}
\* the page size of the aggregator that runs
PageSize == IF tool = "fetch_comments" THEN COMMENT_PAGE ELSE VIDEO_PAGE
\* ceil(n / p), 0 for a cap that asks for nothing
Ceil(n, p) == IF n <= 0 THEN 0 ELSE (n + p - 1) \div p

\* C1: a successful call of a paginated aggregator with cap max returns a
\* record list of at most max records.
C1_AtMostCap ==
    (Succeeded /\ tool \in Aggregators /\ max >= 0) => Len(result.list) <= max

\* C2: every invocation returns a string (a JSON object or an "ERROR: "
\* string, nothing raised past the call boundary), and an invocation that
\* failed (credential, identifier, not found, upstream, malformed data)
\* returns a string that begins with "ERROR: ".
C2_ErrorString ==
    Returned =>
        /\ result.prefix \in {"{", "ERROR: "}
        /\ hist.cause \in FailureCauses => result.prefix = "ERROR: "

C2_Witness ==
    /\ Returned /\ tool = "get_channel_videos"
    /\ hist.cause = "malformed" /\ hist.nreq = 4
    /\ result.prefix = "ERROR: "

\* C3: when a request of a paginated invocation fails after earlier pages
\* succeeded, the call returns an "ERROR: " string that carries none of the
\* records accumulated so far; a call that succeeds has reached its cap or
\* the end of the upstream's pages.
C3_NoPartialResult ==
    (Returned /\ tool \in Aggregators) =>
        /\ hist.cause = "upstream" => (result.prefix = "ERROR: " /\ result.list = << >>)
        /\ result.prefix = "{" => (Len(items) >= max \/ hist.exhausted)

C3_Witness ==
    /\ Returned /\ tool = "get_playlist_details"
    /\ hist.cause = "upstream" /\ hist.npage = 2
    /\ Len(items) > 0
    /\ result.list = << >>

\* C4: whenever the upstream holds at least max comments, fetch_comments
\* returns exactly max records, the replies past the cap dropped.
C4_ExactlyCap ==
    (Succeeded /\ tool = "fetch_comments" /\ max >= 0 /\ hist.enough)
        => Len(result.list) = max

\* the parent a record of a fetch_comments payload must name: none for a
\* top-level comment (<<t, 0>>), and for a reply (<<t, j>>) the top-level
\* comment of its thread when the payload holds one, none otherwise
C5_ParentOf(list, r) ==
    IF r.id[2] = 0 THEN NoneSeq
    ELSE IF \E k \in 1..Len(list) : list[k].id = <<r.id[1], 0>>
    THEN <<r.id[1], 0>> ELSE NoneSeq

C6_Greater(a, b) ==
    IF order = "viewCount" THEN a.viewCount > b.viewCount
    ELSE IF order = "rating" THEN a.likeCount > b.likeCount
    ELSE IF order = "date" THEN StrGreater(a.publishedAt, b.publishedAt)
    ELSE FALSE

\* where the upstream delivered a video
C6_Pos(v) == CHOOSE i \in 1..Len(hist.fetched) : hist.fetched[i] = v

\* C6: get_channel_videos returns the whole accumulated list rearranged: in
\* descending order of the key (views, likes, publication date as text),
\* records with equal keys in their upstream order, and cut to max only
\* after that.
C6_WholeListStableSort ==
    (Succeeded /\ tool = "get_channel_videos") =>
        /\ Len(items) = Len(hist.fetched)
        /\ \A i \in 1..Len(hist.fetched) : \E j \in 1..Len(items) : items[j] = hist.fetched[i]
        /\ \A i, j \in 1..Len(items) :
             i < j =>
               /\ ~C6_Greater(items[j], items[i])
               /\ ~C6_Greater(items[i], items[j]) => C6_Pos(items[i]) < C6_Pos(items[j])
        /\ result.list = SubSeq(items, 1, Min({Len(items), Max({max, 0})}))

C6_Witness ==
    /\ Succeeded /\ tool = "get_channel_videos" /\ order = "viewCount"
    /\ hist.npage = 2
    /\ Len(items) = 2
    /\ items # hist.fetched
    /\ result.list = items

\* C7 (as amended): when every page added exactly as many records as its
\* request asked for, a successful aggregation made exactly ceil(max / P)
\* page requests unless the upstream ran out of pages first, and never more.
C7_PageRequestsWhenFull ==
    (Succeeded /\ tool \in Aggregators /\ hist.allFull) =>
        /\ hist.npage <= Ceil(max, PageSize)
        /\ hist.npage = Ceil(max, PageSize) \/ hist.exhausted

C7_Witness ==
    /\ Succeeded /\ tool = "get_channel_videos" /\ hist.allFull
    /\ max = VIDEO_PAGE + 1
    /\ hist.npage = 2
    /\ Len(items) = max

\* C7 as stated: a successful aggregation made exactly ceil(max / P) page
\* requests unless the upstream ran out of pages first, and never more.
C7_Original ==
    (Succeeded /\ tool \in Aggregators) =>
        /\ hist.npage <= Ceil(max, PageSize)
        /\ hist.npage = Ceil(max, PageSize) \/ hist.exhausted

\* C8: once a primary lookup (channel by handle, channel by id, video by
\* id, playlist by id) came back empty, the invocation has returned an
\* "ERROR: " string and has issued no further request.
C8_NotFoundAborts ==
    hist.cause = "notfound" =>
        /\ Failed
        /\ req = NoReq
        /\ hist.afterFail = 0

C8_Witness ==
    /\ hist.cause = "notfound" /\ tool = "get_channel_videos"
    /\ hist.nreq = 2
    /\ Failed

\* C9: once an upstream request failed, the invocation has returned its
\* error payload and has issued no further request: nothing is retried.
C9_NoRetry ==
    hist.cause = "upstream" =>
        /\ Failed
        /\ req = NoReq
        /\ hist.afterFail = 0

C9_Witness ==
    /\ hist.cause = "upstream" /\ tool = "get_channel_videos"
    /\ hist.nreq = 4 /\ hist.npage = 2
    /\ Failed

\* C10 (as amended): with every request in flight eventually answered, an
\* invocation that waits on an upstream whose cursors come to an end
\* eventually returns a payload.
C10_ReturnsWhenCursorsEnd ==
    (pc = "await" /\ ~upstream.cyclic) ~> (pc = "done")

C10_Witness ==
    /\ Succeeded /\ tool \in Aggregators /\ ~upstream.cyclic
    /\ hist.npage = 2
    /\ hist.exhausted

\* C10 as stated: with every request in flight eventually answered, every
\* invocation eventually returns a payload, whatever the upstream answers.
C10_Original == (pc = "await") ~> (pc = "done")

Tools == {"fetch_comments", "get_channel_videos", "search_videos",
          "get_trending_videos", "get_video_details", "get_trending_playlists",
          "get_playlist_artists", "get_playlist_details", "search_playlists"}

\* C11: a call made while the credential cannot be resolved returns an
\* "ERROR: " string, with no upstream request issued and no client created,
\* and the process goes on serving; the failure leaves nothing in the cache:
\* a call is refused for its credential exactly when the credential cannot be
\* resolved at that call, so a call made once it can be resolved proceeds.
C11_CredentialFailureRecoverable ==
    /\ [](hist.cause = "credential" =>
            /\ Failed /\ tool \in Tools
            /\ hist.nreq = 0 /\ req = NoReq /\ client = "none"
            /\ YT_API_KEY = None)
    /\ [][(pc = "idle" /\ pc' # "idle") =>
            /\ tool' \in Tools
            /\ (hist'.cause = "credential")
                   <=> _get_yt_api_key(YT_API_KEY, argv, environ).raised
            /\ hist'.cause = "credential" => pc' = "done"]_vars

\* the server has refused a call for its credential and waits for the next
\* one, which the credential set in the meantime lets proceed
C11_Witness ==
    /\ refused
    /\ pc = "idle"
    /\ YT_API_KEY = None
    /\ environ = "ENVKEY"
    /\ ~_get_yt_api_key(YT_API_KEY, argv, environ).raised

VideoTools == {"fetch_comments", "get_video_details"}

\* C12: when the resolver yields the empty string for the video argument (and
\* the credential resolves), fetch_comments and get_video_details return an
\* "ERROR: " string without having issued an upstream request or created a
\* client.
C12_NoVideoIdNoClient ==
    (tool \in VideoTools /\ ident = << >> /\ hist.cause # "credential") =>
        /\ Failed
        /\ hist.cause = "parse"
        /\ hist.nreq = 0 /\ req = NoReq
        /\ client = "none"

C12_Witness ==
    /\ tool = "fetch_comments" /\ ident = << >>
    /\ YT_API_KEY # None
    /\ Failed /\ client = "none" /\ hist.nreq = 0

\* the position of the flag on the command line, 0 without one
C13_FlagAt ==
    IF \E i \in 1..Len(argv) : argv[i] = "--yt-key"
    THEN Min({i \in 1..Len(argv) : argv[i] = "--yt-key"})
    ELSE 0
\* what the claim has the resolution yield: the flag's value; nothing for a
\* flag without a value, whatever the environment; else the variable
C13_Resolved ==
    IF C13_FlagAt > 0
    THEN IF C13_FlagAt < Len(argv) THEN argv[C13_FlagAt + 1] ELSE None
    ELSE IF environ # "" THEN environ ELSE None

\* C13: a resolution yields the value that follows the flag on the command
\* line, fails for a flag that nothing follows even when the environment
\* variable is set, and otherwise yields the environment variable; when it
\* yields nothing, the script exits with status 1 before the server accepts
\* a call, and an exited process takes no further step.
C13_FlagThenEnvironOrExit ==
    /\ [][YT_API_KEY = None => YT_API_KEY' = C13_Resolved
                               \/ (YT_API_KEY' = None /\ pc' = "idle")]_vars
    /\ [][pc = "__main__" =>
            /\ C13_Resolved = None => pc' = "sys.exit(1)"
            /\ C13_Resolved # None => pc' = "idle"]_vars
    /\ [](pc = "sys.exit(1)" =>
            /\ YT_API_KEY = None /\ C13_Resolved = None
            /\ tool = "none" /\ hist = NoHist /\ result = NoResult)
    /\ [][pc # "sys.exit(1)"]_vars

\* the script exited although the environment variable is set: a flag
\* without a value stands on the command line
C13_Witness ==
    /\ pc = "sys.exit(1)"
    /\ environ = "ENVKEY"
    /\ C13_FlagAt > 0

\* the texts that denote the video id, one pattern or two in them
C14_Denoting(id) ==
    ShortLinks(id) \cup WatchUrls(id) \cup EmbedUrls(id) \cup BareIds(id)
        \cup TwoPatterns(id, CHOOSE o \in VideoIds : o # id)

C15_ChannelUrls == {CH_CHANNEL_URL, CH_CHANNEL_URL \o VIDEOS_TAB}
C15_Handles == {<<"@">> \o CH_NAME, CH_AT_URL, CH_AT_URL \o VIDEOS_TAB,
                CH_C_URL, CH_USER_URL, CH_C_URL \o VIDEOS_TAB, CH_USER_URL \o <<"/">>}

\* C15: for every input _extract_channel_id returns a pair whose kind is "id"
\* or "username": ("id", <id>) for a /channel/<id> URL, ("username", name)
\* for @name and for the /@name, /c/name and /user/name URLs, and
\* ("id", input) for any other input.
C15_KindAndValue ==
    (pc = "done" /\ tool = "_extract_channel_id") =>
        /\ Len(ident) = 2
        /\ ident[1] \in {"id", "username"}
        /\ arg \in C15_ChannelUrls => ident = <<"id", CH_BARE>>
        /\ arg \in C15_Handles => ident = <<"username", CH_NAME>>
        /\ arg \notin C15_ChannelUrls \cup C15_Handles => ident = <<"id", arg>>

\* C16: a successful get_playlist_artists has followed the playlist's cursors
\* until max items were fetched or no cursor was left, and returns artists
\* without duplicates, sorted by subscriberCount descending.
C16_PaginatesDistinctSorted ==
    (Succeeded /\ tool = "get_playlist_artists") =>
        /\ hist.exhausted \/ hist.enough
        /\ \A i, j \in 1..Len(result.list) :
             i < j => /\ result.list[i].channelId # result.list[j].channelId
                      /\ result.list[i].subscriberCount >= result.list[j].subscriberCount

\* the upstream requests of the invocation that await their response
C17_InFlight == hist.nreq - hist.nresp

C18_ClientReleased ==
    /\ Returned => client \in {"none", "closed"}
    /\ (Returned /\ hist.nreq > 0) => client = "closed"
    /\ req # NoReq => client = "open"
    /\ client = "closed" => (Returned /\ req = NoReq)

\* the early not-found return of an invocation that had opened a client
C18_Witness ==
    /\ Returned /\ hist.cause = "notfound" /\ tool = "get_playlist_details"
    /\ hist.nreq = 1
    /\ client = "closed"

C20_Upstream == IF arg = Absent THEN << >> ELSE arg

\* C20: whatever description the upstream item carries, and when it carries
\* none, the payload holds a record for it; the description of a video
\* record, of an artist record, of the channel of get_channel_videos and of
\* a listed playlist is at most DESC_LIMIT characters long and is a prefix
\* of the upstream's, and the description of get_playlist_details is the
\* upstream's, untruncated.
C20_DescriptionPrefix ==
    (pc = "done" /\ tool # "none") =>
        /\ result.prefix = "{"
        /\ Len(result.list) = 1
        /\ LET d == result.list[1].description
           IN  IF tool = "get_playlist_details" THEN d = C20_Upstream
               ELSE /\ Len(d) <= DESC_LIMIT
                    /\ d = SubSeq(C20_Upstream, 1, Len(d))

\* a step that issues a page request
PageRequestIssued ==
    /\ pc' = "await"
    /\ req'.path \in PagePaths
    /\ hist'.npage # hist.npage

\* C21: a paginated aggregator issues a page request only while its
\* accumulator is below the cap and the last page response, if any, carried a
\* cursor; with a cap of 0 or less it issues no page request at all.
C21_NoPageRequestPastCapOrCursor ==
    /\ []((tool \in Aggregators /\ max <= 0) => hist.npage = 0)
    /\ [][(tool' \in Aggregators /\ PageRequestIssued) =>
            /\ 0 < max'
            /\ Len(items') < max'
            /\ ~hist'.exhausted
            /\ hist.npage > 0 => (page_token' # NoneSeq /\ ~hist.exhausted)]_vars
    /\ [][(tool \in Aggregators /\ pc = "await" /\ pc' = "await"
            /\ (hist'.exhausted \/ Len(items') >= max))
            => hist'.npage = hist.npage]_vars

\* the cap stops a loop that still holds a cursor
C21_Witness ==
    /\ Succeeded /\ tool = "fetch_comments"
    /\ 0 < max /\ Len(items) >= max
    /\ hist.npage = 1
    /\ page_token # NoneSeq /\ ~hist.exhausted

\* C22: every page request of a multi-page fetch asks for
\* min(page size, max - records accumulated so far) items: at least 1, at
\* most the page size and never more than the remaining capacity.
C22_AsksRemainingCapacity ==
    (pc = "await" /\ tool \in Aggregators /\ req.path \in PagePaths) =>
        /\ req.maxResults = Min({PageSize, max - Len(items)})
        /\ 1 <= req.maxResults
        /\ req.maxResults <= PageSize
        /\ req.maxResults <= max - Len(items)

C24_Batchers == {"get_channel_videos", "get_playlist_details"}

\* the video IDs of the page that answers the request in flight, in page
\* order: the upstream numbers its items from what it served before
C24_PageIds ==
    LET base == ServedBefore(PageIndex(req.pageToken))
    IN  List([i \in 1..(upstream'.served - base) |-> base + i])

\* C24: in get_channel_videos and get_playlist_details a page of playlist
\* items that is read and is not empty is followed at once by one
\* video-details request for exactly the video IDs of that page in page
\* order, no more of them than the page request asked for nor than a page
\* holds; an empty page is followed by none, and a video-details request is
\* followed by the next page request or by the return, never by another.
C24_OneBatchPerPage ==
    /\ [][(tool \in C24_Batchers /\ pc = "await" /\ req.path = "playlistItems"
           /\ hist'.cause = "none" /\ pc' # "idle")
          => IF C24_PageIds # << >>
             THEN /\ pc' = "await" /\ req'.path = "videos" /\ req'.param = "id"
                  /\ req'.ids = C24_PageIds
                  /\ Len(req'.ids) <= req.maxResults
                  /\ Len(req'.ids) <= VIDEO_PAGE
                  /\ hist'.nreq = hist.nreq + 1
                  /\ hist'.npage = hist.npage
             ELSE req'.path # "videos"]_vars
    /\ [][(tool \in C24_Batchers /\ pc = "await" /\ req.path = "videos")
          => /\ req'.path # "videos"
             /\ hist'.nreq <= hist.nreq + 1]_vars
    /\ [][(tool' \in C24_Batchers /\ req'.path = "videos" /\ req' # req)
          => (pc = "await" /\ req.path = "playlistItems")]_vars

\* the second page of an invocation, two videos long, being looked up
C24_Witness ==
    /\ pc = "await" /\ tool = "get_playlist_details"
    /\ req.path = "videos"
    /\ hist.npage = 2 /\ hist.nreq = 5
    /\ Len(req.ids) = 2
    /\ req.ids[1] = upstream.served - 1 /\ req.ids[2] = upstream.served

\* C25: in every success payload the reported count (total_returned,
\* total_videos_returned) is the number of records of the returned list,
\* whatever the cap and whatever the upstream answered.
C25_CountIsListLength ==
    Succeeded => result.total = Len(result.list)

\* the tools that look up by ID what one search or one page of items named
C26_TwoStep == {"search_videos", "get_trending_playlists", "search_playlists",
                "get_playlist_artists"}

\* C26: no lookup by IDs (videos, playlists, channels) is in flight with an
\* empty ID list; a tool whose search or page named no ID has returned,
\* without a second request, a JSON payload with an empty list and a count of
\* 0; and so has an aggregator that read nothing but empty pages.
C26_NoEmptyLookup ==
    /\ [](req.param = "id" => req.ids # << >>)
    /\ []((tool \in C26_TwoStep /\ hist.cause = "empty") =>
            /\ Succeeded
            /\ result.list = << >> /\ result.total = 0
            /\ req = NoReq
            /\ hist.nreq = 1 /\ hist.nresp = 1)
    /\ []((Returned /\ tool \in C24_Batchers /\ hist.cause = "none"
           /\ upstream.served = 0) =>
            /\ Succeeded
            /\ result.list = << >> /\ result.total = 0)
    /\ [][(tool \in C26_TwoStep /\ pc = "await" /\ hist.nreq = 1
           /\ pc' = "await") => req'.ids # << >>]_vars

\* a playlist none of whose items names an owner: no channel is looked up
C26_Witness ==
    /\ Succeeded /\ tool = "get_playlist_artists"
    /\ hist.cause = "empty"
    /\ page_data.asked > 0
    /\ hist.nreq = 1
    /\ result.total = 0

=============================================================================
